---- MODULE Spec2Model ----
(***************************************************************************)
(* The natural-language-to-pandas query pipeline of the sales analyser:    *)
(* the desktop front end (queryfinal.py, class SalesDataQueryApp) and the  *)
(* web front end (webapp.py, class SalesQueryApp and main).                *)
(*                                                                         *)
(* Strings are TLA+ strings; Python values are records tagged by their     *)
(* Python type; the table is a record of an ordered column list and an     *)
(* ordered row list.  The language-model response and the CSV file are     *)
(* inputs, drawn from small catalogues.                                    *)
(***************************************************************************)
EXTENDS Integers, Sequences, FiniteSets, TLC

\* Longest run of whitespace put before and after a question or a response.
MaxPad == 1

-----------------------------------------------------------------------------
(* Python strings *)

WhiteChars == {" ", "\n"}

IsSpace(c) == c \in {" ", "\t", "\n", "\r"}

RECURSIVE LStrip(_)
LStrip(s) ==
    IF Len(s) > 0 /\ IsSpace(SubSeq(s, 1, 1))
    THEN LStrip(SubSeq(s, 2, Len(s)))
    ELSE s

RECURSIVE RStrip(_)
RStrip(s) ==
    IF Len(s) > 0 /\ IsSpace(SubSeq(s, Len(s), Len(s)))
    THEN RStrip(SubSeq(s, 1, Len(s) - 1))
    ELSE s

\* str.strip()
Strip(s) == RStrip(LStrip(s))

\* sub in s
Contains(sub, s) ==
    \E i \in 1..(Len(s) - Len(sub) + 1) : SubSeq(s, i, i + Len(sub) - 1) = sub

\* truth value of a str: "not s" is true for the empty string only
Truthy(s) == Len(s) > 0

RECURSIVE Pads(_)
Pads(n) ==
    IF n = 0 THEN {""}
    ELSE Pads(n - 1) \cup {p \o w : p \in Pads(n - 1), w \in WhiteChars}

-----------------------------------------------------------------------------
(* Python values *)

None == [type |-> "NoneType"]
PyInt(n) == [type |-> "int", i |-> n]
PyStr(s) == [type |-> "str", s |-> s]
PyBool(b) == [type |-> "bool", b |-> b]
\* a float is kept as the exact quotient num/den; NaN has its own record
PyFloat(n, d) == [type |-> "float", num |-> n, den |-> d]
PyNaN == [type |-> "float", nan |-> TRUE]
PyBuiltin(name) == [type |-> "builtin_function_or_method", name |-> name]
DataFrame(cols, rows) == [type |-> "DataFrame", columns |-> cols, rows |-> rows]
Series(name, vals) == [type |-> "Series", name |-> name, values |-> vals]

\* An exception: its class, whether the class derives from Exception
\* (SystemExit and KeyboardInterrupt derive from BaseException only), str(e).
Exc(cls, msg) == [cls |-> cls, isException |-> TRUE, msg |-> msg]
BaseExc(cls, msg) == [cls |-> cls, isException |-> FALSE, msg |-> msg]
NoExc == [cls |-> "none"]

-----------------------------------------------------------------------------
(* The table *)

Range(seq) == {seq[i] : i \in 1..Len(seq)}

HasColumn(df, c) == c \in Range(df.columns)

Column(df, c) == [i \in 1..Len(df.rows) |-> df.rows[i][c]]

RECURSIVE SumSeq(_)
SumSeq(vals) == IF Len(vals) = 0 THEN 0 ELSE vals[1] + SumSeq(Tail(vals))

\* DataFrame.head(): the first five rows
Head5(df) ==
    DataFrame(df.columns,
              SubSeq(df.rows, 1, IF Len(df.rows) < 5 THEN Len(df.rows) ELSE 5))

\* pd.to_datetime(text, dayfirst=True) on "dd/mm/yyyy  hh:mm:ss"
ToDatetime(text) ==
    [day |-> SubSeq(text, 1, 2), month |-> SubSeq(text, 4, 5),
     year |-> SubSeq(text, 7, 10), time |-> SubSeq(text, 13, 20)]

ProductCol == "Product name"
AccountCol == "Account (Opportunity) (Opportunity)"

FullColumns ==
    <<ProductCol, AccountCol, "Quantity", "Amount", "Extended Amount", "Created On">>

FullRow(p, a, q, amt, ext, created) ==
    [c \in Range(FullColumns) |->
        CASE c = ProductCol -> p
          [] c = AccountCol -> a
          [] c = "Quantity" -> q
          [] c = "Amount" -> amt
          [] c = "Extended Amount" -> ext
          [] OTHER -> created]

\* What allops.csv may hold: every column the two batteries name, only some
\* of them, or no readable file at all.
CsvFull ==
    [readable |-> TRUE,
     columns |-> FullColumns,
     rows |-> << FullRow("Cable", "Acme", 2, 100, 200, "24/11/2023  13:10:00"),
                 FullRow("Tester", "Borealis", 1, 300, 300, "25/11/2023  09:00:00"),
                 FullRow("Cable", "Acme", 1, 100, 100, "26/11/2023  17:45:00") >>]

CsvNarrow ==
    [readable |-> TRUE,
     columns |-> <<ProductCol, "Amount">>,
     rows |-> << [c \in {ProductCol, "Amount"} |-> IF c = ProductCol THEN "Cable" ELSE 100],
                 [c \in {ProductCol, "Amount"} |-> IF c = ProductCol THEN "Tester" ELSE 300] >>]

CsvMissing == [readable |-> FALSE]

CsvFiles == {CsvFull, CsvNarrow, CsvMissing}

\* pd.read_csv
ReadCsv(file) == DataFrame(file.columns, file.rows)

\* SalesDataQueryApp.load_data: self.df is the table, or None when reading fails
LoadDataDesktop(file) == IF file.readable THEN ReadCsv(file) ELSE None

\* SalesQueryApp.load_data: as above, and a parsed 'Date' column is added when
\* 'Created On' is there (its absence only draws a warning)
LoadDataWeb(file) ==
    IF ~file.readable THEN None
    ELSE LET df == ReadCsv(file) IN
         IF HasColumn(df, "Created On")
         THEN DataFrame(Append(df.columns, "Date"),
                        [i \in 1..Len(df.rows) |->
                            [c \in Range(df.columns) \cup {"Date"} |->
                                IF c = "Date"
                                THEN ToDatetime(df.rows[i]["Created On"])
                                ELSE df.rows[i][c]]])
         ELSE df

LoadData(a, file) == IF a = "desktop" THEN LoadDataDesktop(file) ELSE LoadDataWeb(file)

-----------------------------------------------------------------------------
(* exec(f"result = {generated_code}", globals, locals)                      *)
(*                                                                         *)
(* The outcome of running the statement text: the exception raised (NoExc  *)
(* when none), the value bound to "result", the table afterwards (locals   *)
(* binds df to self.df itself, not to a copy), the host facilities the run *)
(* reached, and the number of statements it ran.                           *)

Ret(v, df) == [exc |-> NoExc, value |-> v, df |-> df, reached |-> {}, stmts |-> 1]
Raise(e, df) == [exc |-> e, value |-> None, df |-> df, reached |-> {}, stmts |-> 1]

\* Names the executed text can resolve.  exec adds __builtins__ to a globals
\* dictionary that lacks it, so every builtin is in reach in both front ends.
Builtins == {"len", "__import__", "SystemExit", "open", "exec", "eval"}
GlobalVars(a) == IF a = "desktop" THEN {"pd"} ELSE {}
LocalVars == {"df"}
Environment(a) == LocalVars \cup GlobalVars(a) \cup Builtins

Quoted(c) == "'" \o c \o "'"

\* df[c]
GetItem(df, c) ==
    IF df = None THEN Raise(Exc("TypeError", "'NoneType' object is not subscriptable"), df)
    ELSE IF ~HasColumn(df, c) THEN Raise(Exc("KeyError", Quoted(c)), df)
    ELSE Ret(Series(c, Column(df, c)), df)

\* df[c].sum()
SumOf(col, df) ==
    IF col.exc # NoExc THEN col ELSE Ret(PyInt(SumSeq(col.value.values)), df)

ColSum(df, c) == SumOf(GetItem(df, c), df)

\* df[c].mean()
MeanOf(col, df) ==
    IF col.exc # NoExc THEN col
    ELSE IF Len(col.value.values) = 0 THEN Ret(PyNaN, df)
    ELSE Ret(PyFloat(SumSeq(col.value.values), Len(col.value.values)), df)

ColMean(df, c) == MeanOf(GetItem(df, c), df)

\* len(df)
LenDf(df) ==
    IF df = None THEN Raise(Exc("TypeError", "object of type 'NoneType' has no len()"), df)
    ELSE Ret(PyInt(Len(df.rows)), df)

NoAttribute(df, attr) ==
    Raise(Exc("AttributeError", "'NoneType' object has no attribute " \o Quoted(attr)), df)

GroupTotal(df, key, c, k) ==
    LET rs == SelectSeq(df.rows, LAMBDA r : r[key] = k)
    IN  SumSeq([i \in 1..Len(rs) |-> rs[i][c]])

\* df.groupby(key)[c].sum().idxmax(): the key whose group has the largest total
\* (the catalogue tables have no ties)
GroupTop(df, key, c) ==
    IF df = None THEN NoAttribute(df, "groupby")
    ELSE IF ~HasColumn(df, key) THEN Raise(Exc("KeyError", Quoted(key)), df)
    ELSE IF ~HasColumn(df, c) THEN Raise(Exc("KeyError", Quoted("Column not found: " \o c)), df)
    ELSE IF Len(df.rows) = 0
         THEN Raise(Exc("ValueError", "attempt to get argmax of an empty sequence"), df)
    ELSE LET keys == {df.rows[i][key] : i \in 1..Len(df.rows)}
             top == CHOOSE k \in keys :
                        \A j \in keys : GroupTotal(df, key, c, k) >= GroupTotal(df, key, c, j)
         IN  Ret(PyStr(top), df)

\* df.head()
HeadDf(df) == IF df = None THEN NoAttribute(df, "head") ELSE Ret(Head5(df), df)

\* df.pop(c): takes the column out of the table itself and returns it
PopColumn(df, c) ==
    IF df = None THEN NoAttribute(df, "pop")
    ELSE IF ~HasColumn(df, c) THEN Raise(Exc("KeyError", Quoted(c)), df)
    ELSE LET left == SelectSeq(df.columns, LAMBDA x : x # c) IN
         Ret(Series(c, Column(df, c)),
             DataFrame(left,
                       [i \in 1..Len(df.rows) |-> [x \in Range(left) |-> df.rows[i][x]]]))

\* df.drop(df.index, inplace=True): removes every row of the table itself
DropAllRows(df) ==
    IF df = None THEN NoAttribute(df, "drop")
    ELSE Ret(None, DataFrame(df.columns, <<>>))

SyntaxErr(df) == Raise(Exc("SyntaxError", "invalid syntax (<string>, line 1)"), df)

\* The fallback expression of generate_pandas_query
Fallback == "df.head()"

\* The two batteries of canned expressions
TotalAmount == "df['Amount'].sum()"
MeanAmount == "df['Amount'].mean()"
CountRows == "len(df)"
TopProductByAmount == "df.groupby('Product name')['Amount'].sum().idxmax()"
TopCustomer == "df.groupby('Account (Opportunity) (Opportunity)')['Amount'].sum().idxmax()"
TotalExtended == "df['Extended Amount'].sum()"
MeanQuantity == "df['Quantity'].mean()"
TopProductByExtended == "df.groupby('Product name')['Extended Amount'].sum().idxmax()"
MeanExtended == "df['Extended Amount'].mean()"

\* Other texts the language model may answer with
UnknownColumn == "df['Revenue'].sum()"
DivideByZero == "1/0"
BuiltinName == "len"
ErrorLookalike == "'E'+'rror executing query: division by zero'"
PopAmount == "df.pop('Amount')"
DropRows == "df.drop(df.index,inplace=True)"
TwoStatements == "0\nraise SystemExit"
ImportOs == "__import__('os').getcwd()"
ErrorColumn == "df['Error']"
UsesPd == "pd.isna(0)"
Narrative == "top products"

\* What running "result = <code>" does, by the text of <code>.  A text outside
\* the catalogue is taken not to parse.
Exec(a, code, df) ==
    CASE code = Fallback -> HeadDf(df)
      [] code = TotalAmount -> ColSum(df, "Amount")
      [] code = MeanAmount -> ColMean(df, "Amount")
      [] code = CountRows -> LenDf(df)
      [] code = TopProductByAmount -> GroupTop(df, ProductCol, "Amount")
      [] code = TopCustomer -> GroupTop(df, AccountCol, "Amount")
      [] code = TotalExtended -> ColSum(df, "Extended Amount")
      [] code = MeanQuantity -> ColMean(df, "Quantity")
      [] code = TopProductByExtended -> GroupTop(df, ProductCol, "Extended Amount")
      [] code = MeanExtended -> ColMean(df, "Extended Amount")
      [] code = UnknownColumn -> ColSum(df, "Revenue")
      [] code = DivideByZero -> Raise(Exc("ZeroDivisionError", "division by zero"), df)
      [] code = BuiltinName -> Ret(PyBuiltin("len"), df)
      [] code = ErrorLookalike ->
            Ret(PyStr("E" \o "rror executing query: division by zero"), df)
      [] code = PopAmount -> PopColumn(df, "Amount")
      [] code = DropRows -> DropAllRows(df)
      [] code = TwoStatements ->
            \* "result = 0" and then "raise SystemExit"
            [Raise(BaseExc("SystemExit", ""), df) EXCEPT !.stmts = 2]
      [] code = ImportOs ->
            \* imports os and asks the host process for its working directory
            [Ret(PyStr("/"), df) EXCEPT !.reached = {"import", "process"}]
      [] code = ErrorColumn -> GetItem(df, "Error")
      [] code = UsesPd ->
            IF "pd" \in Environment(a) THEN Ret(PyBool(FALSE), df)
            ELSE Raise(Exc("NameError", "name 'pd' is not defined"), df)
      [] OTHER -> SyntaxErr(df)

\* execute_pandas_query: the value of "result", or the error text when an
\* Exception was raised; an exception outside the Exception hierarchy is not
\* caught and leaves the method.
TryExcept(o) ==
    IF o.exc = NoExc
    THEN [escaped |-> NoExc, result |-> o.value, failed |-> FALSE,
          df |-> o.df, reached |-> o.reached, stmts |-> o.stmts]
    ELSE IF o.exc.isException
    THEN [escaped |-> NoExc, result |-> PyStr("Error executing query: " \o o.exc.msg),
          failed |-> TRUE, df |-> o.df, reached |-> o.reached, stmts |-> o.stmts]
    ELSE [escaped |-> o.exc, result |-> None, failed |-> TRUE,
          df |-> o.df, reached |-> o.reached, stmts |-> o.stmts]

execute_pandas_query(a, generated_code, df) == TryExcept(Exec(a, generated_code, df))

-----------------------------------------------------------------------------
(* Translation *)

\* What the chat-completion round trip can do: raise (network, credential,
\* client library), answer with no message content, or answer with a text.
ResponseBodies ==
    {"", CountRows, TotalAmount, UnknownColumn, DivideByZero, BuiltinName,
     ErrorLookalike, PopAmount, DropRows, TwoStatements, ImportOs, ErrorColumn,
     UsesPd, Narrative}

\* The texts that also come wrapped in whitespace
PaddedBodies == {"", CountRows}

ResponseTexts ==
    ResponseBodies
    \cup {l \o b \o r : l \in Pads(MaxPad), r \in Pads(MaxPad), b \in PaddedBodies}

ServiceOutcomes ==
    {[kind |-> "raise"], [kind |-> "null"]}
    \cup {[kind |-> "text", text |-> t] : t \in ResponseTexts}

\* The try block of generate_pandas_query raises when the call raises and when
\* the message content is None (None has no strip)
TranslationRaised(r) == r.kind \in {"raise", "null"}

generate_desktop(r) ==
    IF TranslationRaised(r) THEN Fallback
    ELSE LET pandas_code == Strip(r.text) IN
         IF ~Truthy(pandas_code) \/ Contains("Error", pandas_code)
         THEN Fallback
         ELSE pandas_code

generate_web(r) ==
    IF TranslationRaised(r) THEN Fallback
    ELSE LET pandas_code == Strip(r.text) IN
         IF Truthy(pandas_code) THEN pandas_code ELSE Fallback

\* generate_pandas_query without the fallback for a failed round trip
generate_without_fallback(a, r) ==
    IF TranslationRaised(r) THEN "" ELSE Strip(r.text)

\* generate_pandas_query with a check of the content: a response that does not
\* begin with the table's name is replaced by the fallback
generate_validating(a, r) ==
    IF TranslationRaised(r) THEN Fallback
    ELSE LET pandas_code == Strip(r.text) IN
         IF Len(pandas_code) >= 2 /\ SubSeq(pandas_code, 1, 2) = "df"
            /\ ~(a = "desktop" /\ Contains("Error", pandas_code))
         THEN pandas_code
         ELSE Fallback

\* generate_pandas_query, from the outcome of the round trip on
generate_pandas_query(a, r) == IF a = "desktop" THEN generate_desktop(r) ELSE generate_web(r)

-----------------------------------------------------------------------------
(* Quick insights *)

Insight(label, query) == [label |-> label, query |-> query]

DesktopInsights ==
    << Insight("Total Sales", TotalAmount),
       Insight("Average Order Value", MeanAmount),
       Insight("Number of Transactions", CountRows),
       Insight("Top Product", TopProductByAmount),
       Insight("Top Customer", TopCustomer) >>

WebInsights ==
    << Insight("Total Extended Amount", TotalExtended),
       Insight("Average Product Quantity", MeanQuantity),
       Insight("Number of Transactions", CountRows),
       Insight("Top Product by Sales", TopProductByExtended),
       Insight("Average Order Value", MeanExtended) >>

Battery(a) == IF a = "desktop" THEN DesktopInsights ELSE WebInsights

Entry(label, value) == [label |-> label, value |-> value]

\* d[key] = value on a dict kept in insertion order
DictSet(d, key, value) ==
    IF \E i \in 1..Len(d) : d[i].label = key
    THEN [i \in 1..Len(d) |-> IF d[i].label = key THEN Entry(key, value) ELSE d[i]]
    ELSE Append(d, Entry(key, value))

\* A loop body that reports nothing for an item whose evaluation failed
InsightEntrySkipFailed(a, acc, label, o) ==
    IF o.failed THEN acc
    ELSE IF a = "desktop" THEN Append(acc, Entry(label, o.result))
    ELSE DictSet(acc, label, o.result)

\* The body of the loop over the battery, given what execute_pandas_query did
\* (o): the output so far (acc) with this item's entry.  The desktop loop
\* inserts one line per item and catches Exception; the web loop stores into a
\* dict and catches everything.
InsightEntry(a, acc, label, o) ==
    IF a = "desktop"
    THEN IF o.escaped = NoExc THEN Append(acc, Entry(label, o.result))
         ELSE IF o.escaped.isException
              THEN Append(acc, Entry(label, PyStr("Could not calculate")))
              ELSE acc
    ELSE IF o.escaped = NoExc THEN DictSet(acc, label, o.result)
         ELSE DictSet(acc, label, PyStr("N/A"))

\* Whether the loop is left by the exception that execute_pandas_query let out
InsightAborts(a, o) == a = "desktop" /\ o.escaped # NoExc /\ ~o.escaped.isException

RECURSIVE InsightLoop(_, _, _, _, _, _)
RECURSIVE InsightItem(_, _, _, _, _, _)

\* One turn of the loop, given what execute_pandas_query did for item i
InsightItem(a, battery, i, acc, seen, o) ==
    IF InsightAborts(a, o)
    THEN [entries |-> InsightEntry(a, acc, battery[i].label, o), df |-> o.df,
          escaped |-> o.escaped, executed |-> i, reached |-> seen \cup o.reached]
    ELSE InsightLoop(a, battery, i + 1, o.df,
                     InsightEntry(a, acc, battery[i].label, o), seen \cup o.reached)

InsightLoop(a, battery, i, df, acc, seen) ==
    IF i > Len(battery)
    THEN [entries |-> acc, df |-> df, escaped |-> NoExc, executed |-> i - 1,
          reached |-> seen]
    ELSE InsightItem(a, battery, i, acc, seen,
                     execute_pandas_query(a, battery[i].query, df))

\* show_quick_insights / quick_insights
quick_insights(a, df) == InsightLoop(a, Battery(a), 1, df, <<>>, {})

-----------------------------------------------------------------------------
(* The state *)

VARIABLES
    app,              \* which front end runs: "desktop" or "web"
    openai_api_key,   \* whether a credential was found at start-up
    file,             \* what allops.csv holds
    df,               \* self.df
    loaded,           \* self.df as load_data left it
    pc,               \* where the current handler stands
    handler,          \* the handler that ran last
    question,         \* the text of the entry field / text input
    response,         \* what the translation round trip did in this run
    generated_code,   \* the candidate expression of this run
    result,           \* what execute_pandas_query returned in this run
    failed,           \* whether exec raised in this run
    escaped,          \* the exception that left the handler, and from where
    calls,            \* the pipeline calls of this handler run, in order
    executed,         \* the texts handed to exec in this handler run, in order
    reached,          \* host facilities reached by exec in this handler run
    stmts,            \* statements run by the last exec
    displayed         \* what the front end shows

vars == <<app, openai_api_key, file, df, loaded, pc, handler, question, response,
          generated_code, result, failed, escaped, calls, executed, reached,
          stmts, displayed>>

Questions == Pads(MaxPad) \cup {"Total sales"}

NoResponse == [kind |-> "none"]
NoEscape == [from |-> "nowhere", exc |-> NoExc]
Nothing == [kind |-> "nothing"]

\* A handler can start when no handler is under way.  An exception that leaves
\* a Tk callback or a Streamlit script run is reported and the front end keeps
\* serving; SystemExit ends it.
Ready == {"Idle", "Done", "Crashed", "Stopped"}

\* __init__ of either class: the credential, then load_data.  The web class
\* stops the script before load_data when it finds no credential.
Construct(a, key, f) == IF a = "web" /\ ~key THEN None ELSE LoadData(a, f)

Init ==
    /\ app \in {"desktop", "web"}
    /\ openai_api_key \in BOOLEAN
    /\ file \in CsvFiles
    /\ df = Construct(app, openai_api_key, file)
    /\ loaded = df
    /\ pc = "Idle"
    /\ handler = "none"
    /\ question = ""
    /\ response = NoResponse
    /\ generated_code = ""
    /\ result = None
    /\ failed = FALSE
    /\ escaped = NoEscape
    /\ calls = <<>>
    /\ executed = <<>>
    /\ reached = {}
    /\ stmts = 0
    /\ displayed = Nothing

\* The table a handler starts from.  Streamlit runs main() anew on every
\* interaction, so the web handlers start from a newly constructed app; the
\* desktop handlers start from the table as the earlier handlers left it.
StartDf == IF app = "web" THEN Construct(app, openai_api_key, file) ELSE df

\* The web script gets past SalesQueryApp() only with a credential
Serving == pc \in Ready /\ (app = "web" => openai_api_key)

-----------------------------------------------------------------------------
(* The handlers *)

\* An execution step that runs the fallback after a failed execution
RetryWithFallback(a, code, table, first) ==
    IF first.failed /\ first.escaped = NoExc
    THEN [executed |-> <<code, Fallback>>,
          out |-> execute_pandas_query(a, Fallback, first.df)]
    ELSE [executed |-> <<code>>, out |-> first]

run_query_retry(a, code, table) ==
    RetryWithFallback(a, code, table, execute_pandas_query(a, code, table))

\* The execution step of run_query / main: one call of execute_pandas_query
\* on the candidate expression
run_query_execute(a, code, table) ==
    [executed |-> <<code>>, out |-> execute_pandas_query(a, code, table)]

\* "Run Query" with an empty question: the desktop warns and returns, the web
\* script skips the query block.  Nothing of the pipeline is called.
RunQueryRejected(q) ==
    /\ Serving
    /\ ~Truthy(q)
    /\ question' = q
    /\ handler' = "run_query"
    /\ pc' = "Idle"
    /\ df' = StartDf
    /\ loaded' = IF app = "web" THEN StartDf ELSE loaded
    /\ response' = NoResponse
    /\ generated_code' = ""
    /\ result' = None
    /\ failed' = FALSE
    /\ escaped' = NoEscape
    /\ calls' = <<>>
    /\ executed' = <<>>
    /\ reached' = {}
    /\ stmts' = 0
    /\ displayed' = IF app = "web" THEN Nothing ELSE displayed
    /\ UNCHANGED <<app, openai_api_key, file>>

\* "Run Query" with any other question: generate_pandas_query is entered.  It
\* reads self.df.dtypes before its try block, so without a table the
\* AttributeError leaves the handler; otherwise the round trip is under way.
RunQueryStart(q) ==
    /\ Serving
    /\ Truthy(q)
    /\ question' = q
    /\ handler' = "run_query"
    /\ df' = StartDf
    /\ loaded' = IF app = "web" THEN StartDf ELSE loaded
    /\ calls' = <<"generate_pandas_query">>
    /\ IF StartDf = None
       THEN /\ pc' = "Crashed"
            /\ escaped' = [from |-> "generate_pandas_query",
                           exc |-> Exc("AttributeError",
                                       "'NoneType' object has no attribute 'dtypes'")]
       ELSE /\ pc' = "Translating"
            /\ escaped' = NoEscape
    /\ response' = NoResponse
    /\ generated_code' = ""
    /\ result' = None
    /\ failed' = FALSE
    /\ executed' = <<>>
    /\ reached' = {}
    /\ stmts' = 0
    /\ displayed' = IF app = "web" THEN Nothing ELSE displayed
    /\ UNCHANGED <<app, openai_api_key, file>>

\* The round trip ends and generate_pandas_query returns the candidate.
\* Without a credential the client cannot be built and the try block raises.
Translate(r) ==
    /\ pc = "Translating"
    /\ ~openai_api_key => r.kind = "raise"
    /\ response' = r
    /\ generated_code' = generate_pandas_query(app, r)
    /\ pc' = "Executing"
    /\ UNCHANGED <<app, openai_api_key, file, df, loaded, handler, question, result,
                   failed, escaped, calls, executed, reached, stmts, displayed>>

\* The candidate is executed and what execute_pandas_query returns is shown.
Finish(run, o) ==
    /\ df' = o.df
    /\ executed' = executed \o run.executed
    /\ reached' = reached \cup o.reached
    /\ stmts' = o.stmts
    /\ failed' = o.failed
    /\ IF o.escaped # NoExc
       THEN /\ pc' = "Exited"
            /\ escaped' = [from |-> "execute_pandas_query", exc |-> o.escaped]
            /\ calls' = calls \o [i \in 1..Len(run.executed) |-> "execute_pandas_query"]
            /\ UNCHANGED <<result, displayed>>
       ELSE /\ pc' = "Done"
            /\ result' = o.result
            /\ displayed' = [kind |-> "query", question |-> question, result |-> o.result]
            /\ calls' = calls \o [i \in 1..Len(run.executed) |-> "execute_pandas_query"]
                              \o <<"display">>
            /\ UNCHANGED escaped

Finished(run) == Finish(run, run.out)

Execute ==
    /\ pc = "Executing"
    /\ Finished(run_query_execute(app, generated_code, df))
    /\ UNCHANGED <<app, openai_api_key, file, loaded, handler, question, response,
                   generated_code>>

\* "Quick Insights": the whole battery is run and its entries are shown.
ShowInsights(out) ==
    /\ df' = out.df
    /\ displayed' = [kind |-> "insights", entries |-> out.entries]
    /\ calls' = [i \in 1..out.executed |-> "execute_pandas_query"]
    /\ executed' = [i \in 1..out.executed |-> Battery(app)[i].query]
    /\ reached' = out.reached
    /\ IF out.escaped # NoExc
       THEN /\ pc' = "Exited"
            /\ escaped' = [from |-> "execute_pandas_query", exc |-> out.escaped]
       ELSE /\ pc' = "Done"
            /\ escaped' = NoEscape

QuickInsights ==
    /\ Serving
    /\ ShowInsights(quick_insights(app, StartDf))
    /\ handler' = "quick_insights"
    /\ loaded' = IF app = "web" THEN StartDf ELSE loaded
    /\ response' = NoResponse
    /\ generated_code' = ""
    /\ result' = None
    /\ failed' = FALSE
    /\ stmts' = 0
    /\ UNCHANGED <<app, openai_api_key, file, question>>

\* Any interaction with the web page when no credential is set: the script
\* shows the error and stops inside SalesQueryApp().
WebStopped ==
    /\ pc \in Ready
    /\ app = "web"
    /\ ~openai_api_key
    /\ pc' = "Stopped"
    /\ handler' = "none"
    /\ displayed' = [kind |-> "error",
                     text |-> "Please set your OpenAI API key in secrets or .env file"]
    /\ UNCHANGED <<app, openai_api_key, file, df, loaded, question, response,
                   generated_code, result, failed, escaped, calls, executed,
                   reached, stmts>>

Next ==
    \/ \E q \in Questions : RunQueryRejected(q)
    \/ \E q \in Questions : RunQueryStart(q)
    \/ \E r \in ServiceOutcomes : Translate(r)
    \/ Execute
    \/ QuickInsights
    \/ WebStopped

Spec == Init /\ [][Next]_vars

-----------------------------------------------------------------------------
(* Properties *)

IsBlank(q) == Strip(q) = ""

IsPrefix(p, q) == Len(p) <= Len(q) /\ SubSeq(q, 1, Len(p)) = p

ErrorPrefix == "Error executing query: "

\* v is a str that reads as an error report of execute_pandas_query
IsErrorText(v) ==
    IF v.type = "str" THEN IsPrefix(ErrorPrefix, v.s) ELSE FALSE

InQuery == handler = "run_query"

\* The round trip of this run gave no usable text
TranslationFailed ==
    \/ response.kind \in {"raise", "null"}
    \/ response.kind = "text" /\ Strip(response.text) = ""

\* C1: a query run whose question is empty or only whitespace calls neither
\* generate_pandas_query nor execute_pandas_query.
C1_BlankQuestionRejected ==
    (InQuery /\ IsBlank(question)) => (calls = <<>> /\ executed = <<>>)

\* C2: when the translation step failed, the candidate is the fallback
\* expression, the run goes on to execution, the fallback is what is executed
\* and the result shown is the table's head, not an error.
C2_FallbackOnTranslationFailure ==
    (InQuery /\ TranslationFailed) =>
        /\ pc \in {"Executing", "Done"}
        /\ generated_code = Fallback
        /\ pc = "Done" =>
              /\ executed = <<Fallback>>
              /\ ~failed
              /\ result.type = "DataFrame"
              /\ escaped = NoEscape

C2_Witness ==
    /\ InQuery
    /\ pc = "Done"
    /\ response.kind = "raise"
    /\ executed = <<Fallback>>
    /\ result.type = "DataFrame"

C4_ExecuteNeverRaises == escaped.from # "execute_pandas_query"

\* C5: the table is the one load_data left, in every state.
C5_TableNeverChanges == df = loaded

\* C6: a query run calls generate_pandas_query, then execute_pandas_query,
\* then shows the result, each once; the one text executed is the candidate,
\* also when its execution failed, and what is shown is what that execution
\* returned.
QuerySteps == <<"generate_pandas_query", "execute_pandas_query", "display">>

C6_RunShape ==
    InQuery =>
        /\ IsPrefix(calls, QuerySteps)
        /\ Len(executed) <= 1
        /\ pc = "Done" =>
              /\ calls = QuerySteps
              /\ executed = <<generated_code>>
              /\ displayed = [kind |-> "query", question |-> question, result |-> result]

C6_ShownIsReturned ==
    (pc = "Executing" /\ pc' = "Done") =>
        /\ displayed'.result = execute_pandas_query(app, generated_code, df).result
        /\ executed' = <<generated_code>>

C6_TranslateExecuteDone == []C6_RunShape /\ [][C6_ShownIsReturned]_vars

C6_Witness ==
    /\ InQuery
    /\ pc = "Done"
    /\ failed
    /\ generated_code # Fallback
    /\ executed = <<generated_code>>
    /\ IsErrorText(displayed.result)

\* C7: after the insights battery has run there is one entry per battery
\* item, in battery order, under the item's label, and every item was
\* evaluated, whichever evaluations failed.
C7_OneEntryPerInsight ==
    handler = "quick_insights" =>
        /\ displayed.kind = "insights"
        /\ Len(displayed.entries) = Len(Battery(app))
        /\ \A i \in 1..Len(Battery(app)) :
              displayed.entries[i].label = Battery(app)[i].label
        /\ executed = [i \in 1..Len(Battery(app)) |-> Battery(app)[i].query]

C7_Witness ==
    /\ handler = "quick_insights"
    /\ Len(displayed.entries) = Len(Battery(app))
    /\ \E i \in 1..Len(displayed.entries) : \E j \in 1..Len(displayed.entries) :
          /\ i < j
          /\ IsErrorText(displayed.entries[i].value)
          /\ ~IsErrorText(displayed.entries[j].value)

\* C8: a query run with a non-empty question never ends in an escaped
\* exception, and ends with a result that is not None.
C8_QueryEndsDone ==
    (InQuery /\ Truthy(question)) =>
        /\ pc \in {"Translating", "Executing", "Done"}
        /\ escaped = NoEscape
        /\ pc = "Done" => result # None

\* C9: no executed text reaches the host's import machinery, process or
\* files, and none runs more than one statement.
C9_NoHostAccessOneStatement == reached = {} /\ stmts <= 1

\* C10: the result of a finished query run is a scalar or a table, anything
\* else having become an error, and it reads as an error exactly when the
\* execution failed.
C10_ResultClassified ==
    (InQuery /\ pc = "Done") =>
        /\ result.type \in {"int", "float", "str", "bool", "DataFrame", "Series"}
        /\ failed <=> IsErrorText(result)

====
